---------------------------- MODULE Spec2Model ----------------------------
(***************************************************************************)
(* Model of the sqep-lite sealing primitive (src/lib.rs, src/lite.rs) and  *)
(* of the alternate cipher module (src/cipher.rs).                         *)
(*                                                                         *)
(* Byte strings are sequences of integers 0..255.  The external crypto     *)
(* building blocks (ring's HKDF and ChaCha20-Poly1305, rand_chacha's       *)
(* ChaCha20Rng) are modelled by small deterministic functions that keep    *)
(* the interface the code relies on: fixed output lengths, a keystream     *)
(* that depends on (key, nonce) only, a 16-byte tag computed over          *)
(* (key, nonce, ciphertext), open = verify tag, strip it, decrypt.         *)
(***************************************************************************)
EXTENDS Integers, Sequences, FiniteSets, TLC

\* ------------------------------------------------------------------ bounds
MaxLen == 2          \* longest payload handed to encrypt_with_meta
NumKeys == 2         \* number of distinct 32-byte keys
NumNonces == 1       \* number of distinct nonces the random source may draw
MaxMaskLen == 5      \* longest data handed directly to qt_xor_keyed

\* --------------------------------------------------------------- constants
NONCE_LEN == 12
KEY_LEN == 32
TAG_LEN == 16
SEED_LEN == 32
WORD_LEN == 4
HashMod == 32749
HashMul == 31

\* b"SQEP4.0-LITE"
HEADER_MAGIC == <<83, 81, 69, 80, 52, 46, 48, 45, 76, 73, 84, 69>>
\* b"SQEP3.9"
cipher_HEADER_MAGIC == <<83, 81, 69, 80, 51, 46, 57>>
\* b"SQEP:LITE:QT:v1"
QT_DOMAIN == <<83, 81, 69, 80, 58, 76, 73, 84, 69, 58, 81, 84, 58, 118, 49>>

\* ------------------------------------------------------------ byte helpers
RECURSIVE XorBits(_, _, _)
XorBits(a, b, n) ==
    IF n = 0 THEN 0
    ELSE (((a % 2) + (b % 2)) % 2) + 2 * XorBits(a \div 2, b \div 2, n - 1)

XorByte(a, b) == XorBits(a, b, 8)

RECURSIVE Pow2(_)
Pow2(n) == IF n = 0 THEN 1 ELSE 2 * Pow2(n - 1)

Min(a, b) == IF a < b THEN a ELSE b

Zeros(n) == [i \in 1..n |-> 0]

\* digest of the bytes s[lo..hi], position-dependent (halving recursion)
RECURSIVE Mix(_, _, _)
Mix(s, lo, hi) ==
    IF lo > hi THEN 1
    ELSE IF lo = hi THEN (s[lo] * 7 + lo * 13 + 1) % HashMod
    ELSE (Mix(s, lo, (lo + hi) \div 2) * HashMul
          + Mix(s, (lo + hi) \div 2 + 1, hi) * 17 + 1) % HashMod

\* absorb a byte string into a running digest value
Absorb(h, s) == (h * HashMul + Mix(s, 1, Len(s)) * 3 + Len(s)) % HashMod

RECURSIVE PowMod(_, _)
PowMod(x, e) ==
    IF e = 0 THEN 1
    ELSE IF e % 2 = 0 THEN PowMod((x * x) % HashMod, e \div 2)
    ELSE (x * PowMod((x * x) % HashMod, e \div 2)) % HashMod

\* ------------------------------------------------------------ input domains
KeyOf(k) == [i \in 1..KEY_LEN |-> (k * 37 + i * 11) % 256]
Keys == {KeyOf(k) : k \in 1..NumKeys}

NonceOf(n) == [i \in 1..NONCE_LEN |-> (n * 53 + i * 7) % 256]
Nonces == {NonceOf(n) : n \in 1..NumNonces}

\* 'h', and the two bytes of U+00E9 (0xC3 0xA9)
PayloadBytes == {104, 195, 169}

SeqsUpTo(S, n) == UNION {[1..m -> S] : m \in 0..n}
Payloads == SeqsUpTo(PayloadBytes, MaxLen)

MaskBytes == {0, 255}
MaskData == SeqsUpTo(MaskBytes, MaxMaskLen)

\* -------------------------------------------------- keyed xor mask (lite.rs)
\* HKDF extract (salt = nonce, ikm = key) then expand with QT_DOMAIN to 32 bytes
hkdf_seed(key32, nonce12) ==
    LET prk == Absorb(Absorb(1, nonce12), key32)
        okm == Absorb(prk, QT_DOMAIN)
    IN [i \in 1..SEED_LEN |-> Absorb(okm, <<i>>) % 256]

\* the n-th (0-based) u32 of ChaCha20Rng::from_seed(seed), as two 16-bit halves
next_u32(seed, n) ==
    LET lo == Absorb(Absorb(n + 2, seed), <<1>>)
        hi == Absorb(Absorb(n + 5, seed), <<2, n>>)
    IN [lo |-> lo, hi |-> hi]

to_le_bytes(w) ==
    <<w.lo % 256, (w.lo \div 256) % 256, w.hi % 256, (w.hi \div 256) % 256>>

\* the while loop of qt_xor_keyed: fill ks[i..i+take] word by word
RECURSIVE fill_ks(_, _, _, _)
fill_ks(seed, ks, i, n) ==
    IF i < Len(ks)
    THEN LET word == to_le_bytes(next_u32(seed, n))
             take == Min(WORD_LEN, Len(ks) - i)
         IN fill_ks(seed,
                    [j \in 1..Len(ks) |->
                        IF j > i /\ j <= i + take THEN word[j - i] ELSE ks[j]],
                    i + take, n + 1)
    ELSE ks

\* variant whose seed also absorbs the data bytes
keystream_data_dependent(data, key32, nonce12) ==
    fill_ks(hkdf_seed(key32, nonce12 \o data), Zeros(Len(data)), 0, 0)
keystream(data, key32, nonce12) ==
    fill_ks(hkdf_seed(key32, nonce12), Zeros(Len(data)), 0, 0)

qt_xor_keyed(data, key32, nonce12) ==
    LET ks == keystream(data, key32, nonce12)
    IN [i \in 1..Min(Len(data), Len(ks)) |-> XorByte(data[i], ks[i])]

\* ------------------------------------- ChaCha20-Poly1305 (ring::aead) model
\* per-(key, nonce) state of the primitive
aead_state(key32, nonce12) == Absorb(Absorb(3, key32), nonce12)

\* byte i (1-based) of the encryption keystream
aead_stream_byte(state, i) == Absorb(state, <<i, 7>>) % 256

aead_xor(key32, nonce12, data) ==
    LET st == aead_state(key32, nonce12)
    IN [i \in 1..Len(data) |-> XorByte(data[i], aead_stream_byte(st, i))]

\* one-time authenticator: polynomial in r over the ciphertext and its length,
\* plus the pad s; r and s come from (key, nonce)
\* sum over i in lo..hi of (c[i] + 1) * r^(i - lo + 1), modulo HashMod
RECURSIVE poly_eval(_, _, _, _)
poly_eval(r, c, lo, hi) ==
    IF lo > hi THEN 0
    ELSE IF lo = hi THEN ((c[lo] + 1) * r) % HashMod
    ELSE (poly_eval(r, c, lo, (lo + hi) \div 2)
          + PowMod(r, (lo + hi) \div 2 - lo + 1)
            * poly_eval(r, c, (lo + hi) \div 2 + 1, hi)) % HashMod

aead_tag(key32, nonce12, c) ==
    LET st  == aead_state(key32, nonce12)
        rk  == 1 + (Absorb(st, <<0, 1>>) % (HashMod - 1))
        sum == (poly_eval(rk, c, 1, Len(c)) + (Len(c) + 1) * PowMod(rk, Len(c) + 1)) % HashMod
        le  == [j \in 1..TAG_LEN |->
                   IF j = 1 THEN sum % 256
                   ELSE IF j = 2 THEN (sum \div 256) % 256 ELSE 0]
    IN [j \in 1..TAG_LEN |-> (le[j] + (Absorb(st, <<0, 2, j>>) % 256)) % 256]

\* LessSafeKey::seal_in_place_append_tag with empty AAD: encrypts all of
\* in_out and appends the tag
seal_in_place_append_tag(key32, nonce12, in_out) ==
    LET ct == aead_xor(key32, nonce12, in_out)
    IN ct \o aead_tag(key32, nonce12, ct)

\* variant that strips the tag without verifying it
open_in_place_unverified(key32, nonce12, in_out) ==
    IF Len(in_out) < TAG_LEN
    THEN [ok |-> FALSE, bytes |-> <<>>]
    ELSE [ok |-> TRUE,
          bytes |-> aead_xor(key32, nonce12, SubSeq(in_out, 1, Len(in_out) - TAG_LEN))]
\* LessSafeKey::open_in_place with empty AAD
open_in_place(key32, nonce12, in_out) ==
    IF Len(in_out) < TAG_LEN
    THEN [ok |-> FALSE, bytes |-> <<>>]
    ELSE LET ct  == SubSeq(in_out, 1, Len(in_out) - TAG_LEN)
             tag == SubSeq(in_out, Len(in_out) - TAG_LEN + 1, Len(in_out))
         IN IF aead_tag(key32, nonce12, ct) = tag
            THEN [ok |-> TRUE, bytes |-> aead_xor(key32, nonce12, ct)]
            ELSE [ok |-> FALSE, bytes |-> <<>>]

\* Nonce::try_assume_unique_for_key: fails unless the slice has NONCE_LEN bytes
try_assume_unique_for_key(nonce_bytes) == Len(nonce_bytes) = NONCE_LEN

\* slice.split_at(mid), for mid <= len
split_at(s, mid) == <<SubSeq(s, 1, mid), SubSeq(s, mid + 1, Len(s))>>

\* ------------------------------------------------------- results of decrypt
\* steps: the stages the call went through, in order; nonce: the nonce
\* recovered from the frame (empty when the call stopped before the split)
Ok(bytes, steps, n) ==
    [ok |-> TRUE, err |-> "", bytes |-> bytes, steps |-> steps, nonce |-> n]
Err(e, steps, n) ==
    [ok |-> FALSE, err |-> e, bytes |-> <<>>, steps |-> steps, nonce |-> n]
NoResult ==
    [ok |-> FALSE, err |-> "none", bytes |-> <<>>, steps |-> <<>>, nonce |-> <<>>]

\* ------------------------------------------------------------------ lite.rs
\* variant that first grows the buffer by the tag length, as cipher.rs does
encrypt_with_meta_resized(key, plaintext, nonce_bytes) ==
    LET masked == qt_xor_keyed(plaintext, key, nonce_bytes) \o Zeros(TAG_LEN)
        sealed_data == seal_in_place_append_tag(key, nonce_bytes, masked)
    IN HEADER_MAGIC \o nonce_bytes \o sealed_data
encrypt_with_meta(key, plaintext, nonce_bytes) ==
    LET masked == qt_xor_keyed(plaintext, key, nonce_bytes)
        sealed_data == seal_in_place_append_tag(key, nonce_bytes, masked)
    IN HEADER_MAGIC \o nonce_bytes \o sealed_data

\* the length guard at the top of decrypt
too_short_padded(ciphertext) ==
    Len(ciphertext) < Len(HEADER_MAGIC) + NONCE_LEN + TAG_LEN
too_short(ciphertext) == Len(ciphertext) < Len(HEADER_MAGIC) + NONCE_LEN

\* header != HEADER_MAGIC, negated
header_matches_prefix(header) == SubSeq(header, 1, 4) = SubSeq(HEADER_MAGIC, 1, 4)
header_matches(header) == header = HEADER_MAGIC

\* rest.split_at(NONCE_LEN)
split_nonce_wide(rest) == split_at(rest, Min(Len(rest), TAG_LEN))
split_nonce(rest) == split_at(rest, NONCE_LEN)

\* what a failed open_in_place is mapped to
open_failure_as_header(steps, nonce_bytes) == Err("Invalid header", steps, nonce_bytes)
open_failure(steps, nonce_bytes) == Err("Decryption failed", steps, nonce_bytes)

\* reverse the keyed xor transform on the opened bytes
unmask_skipped(decrypted, key, nonce_bytes) == decrypted
unmask(decrypted, key, nonce_bytes) == qt_xor_keyed(decrypted, key, nonce_bytes)

decrypt(key, ciphertext) ==
    IF too_short(ciphertext)
    THEN Err("Ciphertext too short", <<"length">>, <<>>)
    ELSE LET hr     == split_at(ciphertext, Len(HEADER_MAGIC))
             hdr    == hr[1]
             rst    == hr[2]
         IN IF ~header_matches(hdr)
            THEN Err("Invalid header", <<"length", "header">>, <<>>)
            ELSE LET nd   == split_nonce(rst)
                     nb   == nd[1]
                     encd == nd[2]
                 IN IF ~try_assume_unique_for_key(nb)
                    THEN Err("Nonce error", <<"length", "header", "nonce">>, nb)
                    ELSE LET opened == open_in_place(key, nb, encd)
                         IN IF ~opened.ok
                            THEN open_failure(<<"length", "header", "nonce", "aead">>, nb)
                            ELSE Ok(unmask(opened.bytes, key, nb),
                                    <<"length", "header", "nonce", "aead", "unmask">>,
                                    nb)

\* std::str::from_utf8: well-formed UTF-8 byte sequences (Unicode table 3-7)
Cont(s, k) == Len(s) >= k /\ s[k] \in 128..191
RECURSIVE from_utf8(_)
from_utf8(s) ==
    IF s = <<>> THEN TRUE
    ELSE LET b == s[1]
             After(k) == from_utf8(SubSeq(s, k + 1, Len(s)))
         IN IF b < 128 THEN After(1)
            ELSE IF b \in 194..223 THEN Cont(s, 2) /\ After(2)
            ELSE IF b = 224
                 THEN Len(s) >= 2 /\ s[2] \in 160..191 /\ Cont(s, 3) /\ After(3)
            ELSE IF b \in 225..236 \/ b \in 238..239
                 THEN Cont(s, 2) /\ Cont(s, 3) /\ After(3)
            ELSE IF b = 237
                 THEN Len(s) >= 2 /\ s[2] \in 128..159 /\ Cont(s, 3) /\ After(3)
            ELSE IF b = 240
                 THEN Len(s) >= 2 /\ s[2] \in 144..191 /\ Cont(s, 3) /\ Cont(s, 4)
                      /\ After(4)
            ELSE IF b \in 241..243
                 THEN Cont(s, 2) /\ Cont(s, 3) /\ Cont(s, 4) /\ After(4)
            ELSE IF b = 244
                 THEN Len(s) >= 2 /\ s[2] \in 128..143 /\ Cont(s, 3) /\ Cont(s, 4)
                      /\ After(4)
            ELSE FALSE

\* variant that maps every failure to the text-decoding error
decrypt_utf8_any_error(key, ciphertext) ==
    LET r == decrypt(key, ciphertext)
    IN IF ~r.ok \/ ~from_utf8(r.bytes)
       THEN Err("UTF-8 error", r.steps \o <<"utf8">>, r.nonce)
       ELSE Ok(r.bytes, r.steps \o <<"utf8">>, r.nonce)
\* the String of a successful decrypt_utf8 is held in bytes
decrypt_utf8(key, ciphertext) ==
    LET r == decrypt(key, ciphertext)
    IN IF ~r.ok THEN r
       ELSE IF ~from_utf8(r.bytes)
            THEN Err("UTF-8 error", r.steps \o <<"utf8">>, r.nonce)
            ELSE Ok(r.bytes, r.steps \o <<"utf8">>, r.nonce)

\* ---------------------------------------------------------------- cipher.rs
cipher_encrypt_with_meta(key, plaintext, nonce_bytes) ==
    LET padded == plaintext \o Zeros(TAG_LEN)      \* to_vec, then resize(+tag_len, 0)
        sealed_data == seal_in_place_append_tag(key, nonce_bytes, padded)
    IN cipher_HEADER_MAGIC \o nonce_bytes \o sealed_data

cipher_decrypt(key, ciphertext) ==
    IF Len(ciphertext) < Len(cipher_HEADER_MAGIC) + NONCE_LEN
    THEN Err("Ciphertext too short", <<"length">>, <<>>)
    ELSE LET hr     == split_at(ciphertext, Len(cipher_HEADER_MAGIC))
             hdr    == hr[1]
             rst    == hr[2]
         IN IF hdr # cipher_HEADER_MAGIC
            THEN Err("Invalid header", <<"length", "header">>, <<>>)
            ELSE LET nd   == split_at(rst, NONCE_LEN)
                     nb   == nd[1]
                     encd == nd[2]
                 IN IF ~try_assume_unique_for_key(nb)
                    THEN Err("Nonce error", <<"length", "header", "nonce">>, nb)
                    ELSE LET opened == open_in_place(key, nb, encd)
                         IN IF ~opened.ok
                            THEN Err("Decryption failed",
                                     <<"length", "header", "nonce", "aead">>, nb)
                            ELSE Ok(opened.bytes,
                                    <<"length", "header", "nonce", "aead">>, nb)

\* -------------------------------------------------------------------- state
VARIABLES
    sealKey,    \* key of the cipher instance that seals
    openKey,    \* key of the cipher instance that unseals
    plain,      \* payload handed to encrypt_with_meta
    nonce,      \* the 12 bytes drawn by that call
    impl,       \* module that sealed: "lite" or "cipher"
    sealed,     \* frame returned by encrypt_with_meta
    input,      \* bytes handed to decrypt (the frame, possibly altered in transit)
    phase,      \* "idle" -> "sealed" -> "opened"
    op,         \* unseal entry point that ran
    result,     \* what it returned
    mKey, mNonce, mOrig, mData, mCount   \* direct use of qt_xor_keyed

vars == <<sealKey, openKey, plain, nonce, impl, sealed, input, phase, op, result,
          mKey, mNonce, mOrig, mData, mCount>>

cipherVars == <<sealKey, openKey, plain, nonce, impl, sealed, input, phase, op, result>>
maskVars == <<mKey, mNonce, mOrig, mData, mCount>>

\* two cipher instances built with from_key; nothing sealed yet
Init ==
    /\ sealKey \in Keys
    /\ openKey \in Keys
    /\ plain = <<>>
    /\ nonce = <<>>
    /\ impl = "none"
    /\ sealed = <<>>
    /\ input = <<>>
    /\ phase = "idle"
    /\ op = "none"
    /\ result = NoResult
    /\ mKey = KeyOf(1)
    /\ mNonce = NonceOf(1)
    /\ mOrig = <<>>
    /\ mData = <<>>
    /\ mCount = 0

EncryptWithMeta ==
    /\ phase = "idle"
    /\ \E p \in Payloads, n \in Nonces :
          /\ plain' = p
          /\ nonce' = n
          /\ sealed' = encrypt_with_meta(sealKey, p, n)
          /\ input' = encrypt_with_meta(sealKey, p, n)
    /\ impl' = "lite"
    /\ phase' = "sealed"
    /\ UNCHANGED <<sealKey, openKey, op, result>>
    /\ UNCHANGED maskVars

CipherEncryptWithMeta ==
    /\ phase = "idle"
    /\ \E p \in Payloads, n \in Nonces :
          /\ plain' = p
          /\ nonce' = n
          /\ sealed' = cipher_encrypt_with_meta(sealKey, p, n)
          /\ input' = cipher_encrypt_with_meta(sealKey, p, n)
    /\ impl' = "cipher"
    /\ phase' = "sealed"
    /\ UNCHANGED <<sealKey, openKey, op, result>>
    /\ UNCHANGED maskVars

\* a frame of the exported cipher is altered between seal and unseal:
\* one bit flipped
\* bit positions tried in every byte: lowest, middle, highest
FlipBits == {0, 3, 7}

flip_bit(f, i, b) == [f EXCEPT ![i] = XorByte(@, Pow2(b))]

FlipBit ==
    /\ phase = "sealed"
    /\ impl = "lite"
    /\ input = sealed
    /\ \E i \in 1..Len(input), b \in FlipBits : input' = flip_bit(input, i, b)
    /\ UNCHANGED <<sealKey, openKey, plain, nonce, impl, sealed, phase, op, result>>
    /\ UNCHANGED maskVars

\* ... or cut short
Truncate ==
    /\ phase = "sealed"
    /\ impl = "lite"
    /\ input = sealed
    /\ \E n \in 0..(Len(input) - 1) : input' = SubSeq(input, 1, n)
    /\ UNCHANGED <<sealKey, openKey, plain, nonce, impl, sealed, phase, op, result>>
    /\ UNCHANGED maskVars

Decrypt ==
    /\ phase = "sealed"
    /\ result' = decrypt(openKey, input)
    /\ op' = "decrypt"
    /\ phase' = "opened"
    /\ UNCHANGED <<sealKey, openKey, plain, nonce, impl, sealed, input>>
    /\ UNCHANGED maskVars

DecryptUtf8 ==
    /\ phase = "sealed"
    /\ result' = decrypt_utf8(openKey, input)
    /\ op' = "decrypt_utf8"
    /\ phase' = "opened"
    /\ UNCHANGED <<sealKey, openKey, plain, nonce, impl, sealed, input>>
    /\ UNCHANGED maskVars

CipherDecrypt ==
    /\ phase = "sealed"
    /\ result' = cipher_decrypt(openKey, input)
    /\ op' = "cipher_decrypt"
    /\ phase' = "opened"
    /\ UNCHANGED <<sealKey, openKey, plain, nonce, impl, sealed, input>>
    /\ UNCHANGED maskVars

Next ==
    \/ EncryptWithMeta
    \/ CipherEncryptWithMeta
    \/ FlipBit
    \/ Truncate
    \/ Decrypt
    \/ DecryptUtf8
    \/ CipherDecrypt

Spec == Init /\ [][Next]_vars

\* ------------------------------------------- qt_xor_keyed applied on its own
InitMask ==
    /\ sealKey = KeyOf(1)
    /\ openKey = KeyOf(1)
    /\ plain = <<>>
    /\ nonce = <<>>
    /\ impl = "none"
    /\ sealed = <<>>
    /\ input = <<>>
    /\ phase = "idle"
    /\ op = "none"
    /\ result = NoResult
    /\ mKey \in Keys
    /\ mNonce \in Nonces
    /\ mOrig \in MaskData
    /\ mData = mOrig
    /\ mCount = 0

ApplyMask ==
    /\ mCount < 2
    /\ mData' = qt_xor_keyed(mData, mKey, mNonce)
    /\ mCount' = mCount + 1
    /\ UNCHANGED <<mKey, mNonce, mOrig>>
    /\ UNCHANGED cipherVars

NextMask == ApplyMask

SpecMask == InitMask /\ [][NextMask]_vars

\* ------------------------------------------------------------------ claims
HdrLen == Len(HEADER_MAGIC)
DataStart == HdrLen + NONCE_LEN

\* the call under scrutiny: lite.rs decrypt has returned
Opened == phase = "opened" /\ op = "decrypt"
\* ... on the untouched frame sealed by lite.rs
OpenedSealed == Opened /\ impl = "lite" /\ input = sealed

DiffPositions(f, g) == {i \in 1..Len(f) : f[i] # g[i]}
OneBit == {1, 2, 4, 8, 16, 32, 64, 128}

\* g is f with exactly one bit flipped at a position after the nonce
SingleBitFlipAfterNonce(f, g) ==
    /\ Len(f) = Len(g)
    /\ \E i \in (DataStart + 1)..Len(f) :
          /\ DiffPositions(f, g) = {i}
          /\ XorByte(f[i], g[i]) \in OneBit

HeaderOf(f) == SubSeq(f, 1, Min(Len(f), HdrLen))

\* C1: unsealing an untouched lite.rs frame under the sealing key returns
\* exactly the payload that was sealed (same bytes, same length), the empty
\* payload included, and never an error.
C1_RoundTrip ==
    (OpenedSealed /\ openKey = sealKey)
        => /\ result.ok
           /\ result.bytes = plain
           /\ Len(result.bytes) = Len(plain)

C1_Witness ==
    /\ OpenedSealed /\ openKey = sealKey
    /\ Len(plain) = MaxLen
    /\ result.ok /\ result.bytes = plain

\* C2: a lite.rs frame with one bit flipped anywhere after the nonce
\* (ciphertext or tag) is rejected with "Decryption failed" under the sealing
\* key; decrypt never returns Ok for it.
C2_TamperDetected ==
    (Opened /\ impl = "lite" /\ openKey = sealKey
        /\ SingleBitFlipAfterNonce(sealed, input))
        => /\ ~result.ok
           /\ result.err = "Decryption failed"

C2_Witness ==
    /\ Opened /\ impl = "lite" /\ openKey = sealKey
    /\ SingleBitFlipAfterNonce(sealed, input)
    /\ Len(plain) > 0
    /\ input[DataStart + 1] # sealed[DataStart + 1]
    /\ result.err = "Decryption failed"

\* C3: unsealing an untouched lite.rs frame under a key other than the
\* sealing key fails with "Decryption failed"; it is not reported as a
\* malformed frame and never returns Ok.
C3_WrongKeyRejected ==
    (OpenedSealed /\ openKey # sealKey)
        => /\ ~result.ok
           /\ result.err = "Decryption failed"

C3_Witness ==
    /\ OpenedSealed /\ openKey # sealKey
    /\ Len(plain) > 0
    /\ result.err = "Decryption failed"

\* C4: any input of at least |HEADER_MAGIC| + 12 bytes whose leading
\* |HEADER_MAGIC| bytes differ from HEADER_MAGIC is answered "Invalid header"
\* and the call never reaches authenticated decryption, whatever the key and
\* the rest of the input are.
C4_HeaderRejected ==
    (Opened /\ Len(input) >= DataStart /\ HeaderOf(input) # HEADER_MAGIC)
        => /\ ~result.ok
           /\ result.err = "Invalid header"
           /\ \A k \in 1..Len(result.steps) : result.steps[k] # "aead"

C4_Witness ==
    /\ Opened /\ impl = "lite"
    /\ Len(input) = Len(sealed)
    /\ \E i \in 5..HdrLen : DiffPositions(sealed, input) = {i}
    /\ result.err = "Invalid header"

\* C5 as stated: every input shorter than |HEADER_MAGIC| + 12 + 16 bytes is
\* answered "Ciphertext too short" or "Invalid header" before any
\* cryptographic work.
C5_ShortIsMalformed ==
    (Opened /\ Len(input) < DataStart + TAG_LEN)
        => /\ ~result.ok
           /\ result.err \in {"Ciphertext too short", "Invalid header"}
           /\ \A k \in 1..Len(result.steps) : result.steps[k] # "aead"

\* C5 amended: every input shorter than |HEADER_MAGIC| + 12 + 16 bytes is
\* rejected; below |HEADER_MAGIC| + 12 bytes with "Ciphertext too short",
\* from there on with "Invalid header" when the leading bytes differ from
\* HEADER_MAGIC (both before authenticated decryption), and with
\* "Decryption failed", at the authenticated-decryption step, when the
\* format tag and the nonce are intact but fewer than 16 bytes follow.
C5_ShortIsRejected ==
    (Opened /\ Len(input) < DataStart + TAG_LEN)
        => /\ ~result.ok
           /\ (Len(input) < DataStart)
                 => /\ result.err = "Ciphertext too short"
                    /\ result.steps = <<"length">>
           /\ (Len(input) >= DataStart /\ HeaderOf(input) # HEADER_MAGIC)
                 => /\ result.err = "Invalid header"
                    /\ result.steps = <<"length", "header">>
           /\ (Len(input) >= DataStart /\ HeaderOf(input) = HEADER_MAGIC)
                 => /\ result.err = "Decryption failed"
                    /\ result.steps = <<"length", "header", "nonce", "aead">>

C5_Witness ==
    /\ Opened /\ impl = "lite"
    /\ Len(input) >= DataStart
    /\ Len(input) < DataStart + TAG_LEN
    /\ HeaderOf(input) = HEADER_MAGIC
    /\ result.err = "Decryption failed"

\* C6: a lite.rs frame is HEADER_MAGIC || nonce || ciphertext || tag with
\* |ciphertext| = |payload| and |tag| = 16, so its length is
\* |HEADER_MAGIC| + 12 + |payload| + 16; the ciphertext is the AEAD
\* encryption, under the drawn nonce, of the payload masked under that nonce,
\* and decrypt recovers that nonce from the frame.
C6_FrameLayout ==
    /\ OpenedSealed => result.nonce = nonce
    /\ (phase = "sealed" /\ impl = "lite" /\ input = sealed)
        => /\ Len(sealed) = HdrLen + NONCE_LEN + Len(plain) + TAG_LEN
           /\ SubSeq(sealed, 1, HdrLen) = HEADER_MAGIC
           /\ SubSeq(sealed, HdrLen + 1, DataStart) = nonce
           /\ SubSeq(sealed, DataStart + 1, DataStart + Len(plain))
                 = aead_xor(sealKey, nonce, qt_xor_keyed(plain, sealKey, nonce))
           /\ SubSeq(sealed, DataStart + Len(plain) + 1, Len(sealed))
                 = aead_tag(sealKey, nonce,
                            SubSeq(sealed, DataStart + 1, DataStart + Len(plain)))

C6_Witness ==
    /\ OpenedSealed
    /\ Len(plain) = MaxLen
    /\ Len(sealed) = HdrLen + NONCE_LEN + MaxLen + TAG_LEN
    /\ result.nonce = nonce

\* C7: applying qt_xor_keyed twice with the same key and nonce gives back
\* the data, for every length (0 and lengths that are not a multiple of 4
\* included); each application keeps the length, and the keystream is the
\* same for the data and for the masked data.
C7_SelfInverse ==
    /\ Len(mData) = Len(mOrig)
    /\ keystream(mData, mKey, mNonce) = keystream(mOrig, mKey, mNonce)
    /\ (mCount = 2) => (mData = mOrig)

C7_Witness ==
    /\ mCount = 2
    /\ Len(mOrig) = MaxMaskLen
    /\ mData = mOrig

\* well-formed text over PayloadBytes: 0xC3 is always followed by 0xA9 and
\* 0xA9 always preceded by 0xC3
WellFormedPayload(p) ==
    \A i \in 1..Len(p) :
        /\ (p[i] = 195) => (i < Len(p) /\ p[i + 1] = 169)
        /\ (p[i] = 169) => (i > 1 /\ p[i - 1] = 195)

\* C8: decrypt_utf8 answers "UTF-8 error" exactly when decrypt succeeds on
\* the same input and the recovered bytes are not valid UTF-8; a failure of
\* decrypt is passed on unchanged; valid recovered bytes are returned as the
\* text, byte for byte.
C8_TextVariant ==
    (phase = "opened" /\ op = "decrypt_utf8")
        => LET d == decrypt(openKey, input)
           IN /\ (result.err = "UTF-8 error") <=> (d.ok /\ ~from_utf8(d.bytes))
              /\ ~d.ok => (~result.ok /\ result.err = d.err)
              /\ (d.ok /\ from_utf8(d.bytes))
                    => (result.ok /\ result.bytes = d.bytes)
              /\ (impl = "lite" /\ input = sealed /\ openKey = sealKey)
                    => /\ result.ok <=> WellFormedPayload(plain)
                       /\ result.ok => result.bytes = plain

C8_Witness ==
    /\ phase = "opened" /\ op = "decrypt_utf8"
    /\ impl = "lite" /\ input = sealed /\ openKey = sealKey
    /\ plain = <<195>>
    /\ result.err = "UTF-8 error"

StepOrder == <<"length", "header", "nonce", "aead", "unmask">>

\* C9: decrypt goes through length check, format-tag check, nonce split,
\* authenticated decryption and unmasking in that order, stops at the first
\* failing step and ends in exactly one of "Ciphertext too short",
\* "Invalid header", "Decryption failed" or Ok; once authenticated decryption
\* has succeeded the call ends in Ok, and "Nonce error" is never returned
\* because the nonce slice always has 12 bytes.
C9_UnsealStateMachine ==
    Opened
        => /\ Len(result.steps) \in 1..Len(StepOrder)
           /\ result.steps = SubSeq(StepOrder, 1, Len(result.steps))
           /\ \/ result.ok /\ result.err = ""
              \/ ~result.ok /\ result.err \in {"Ciphertext too short",
                                               "Invalid header",
                                               "Decryption failed"}
           /\ (result.err = "Ciphertext too short") <=> (Len(result.steps) = 1)
           /\ (result.err = "Invalid header") <=> (Len(result.steps) = 2)
           /\ (result.err = "Decryption failed") <=> (Len(result.steps) = 4)
           /\ result.ok <=> (Len(result.steps) = 5)
           /\ result.err # "Nonce error"
           /\ (Len(result.steps) >= 3) => (Len(result.nonce) = NONCE_LEN)
           /\ (Len(result.steps) >= 4
                  /\ open_in_place(openKey, result.nonce,
                                   SubSeq(input, DataStart + 1, Len(input))).ok)
                 => result.ok

C9_Witness ==
    /\ Opened /\ impl = "lite"
    /\ Len(input) > DataStart + TAG_LEN
    /\ result.ok
    /\ result.steps = StepOrder
    /\ Len(result.nonce) = NONCE_LEN

\* C10: cipher.rs frames are cipher_HEADER_MAGIC || nonce || AEAD(payload),
\* of length |cipher_HEADER_MAGIC| + 12 + |payload| + 16, and cipher.rs
\* decrypt of such a frame under the sealing key returns exactly the payload.
C10_CipherEquivalent ==
    (phase = "opened" /\ op = "cipher_decrypt" /\ impl = "cipher"
        /\ input = sealed /\ openKey = sealKey)
        => /\ Len(sealed) = Len(cipher_HEADER_MAGIC) + NONCE_LEN + Len(plain) + TAG_LEN
           /\ sealed = cipher_HEADER_MAGIC \o nonce
                          \o seal_in_place_append_tag(sealKey, nonce, plain)
           /\ result.ok
           /\ result.bytes = plain

=============================================================================
